---- MODULE Spec2Model ----
(***************************************************************************)
(* Care-Route Pro: the client-side state machine of src/App.tsx and the    *)
(* two service wrappers of geminiService (src/unnamed/part_000).           *)
(*                                                                         *)
(* Strings are sequences of one-character tokens.  The module is ASCII, so *)
(* the Japanese glyphs of the source are written by their readings:        *)
(*   "gatsu" = U+6708 (month marker)   "nichi" = U+65E5 (day marker)       *)
(*   "na","shi"       = the two glyphs of the sentinel meaning "none"      *)
(*   "mi","hou","mon" = the three glyphs of the sentinel "not visited"     *)
(* Every other token is the ASCII character itself.                        *)
(***************************************************************************)
EXTENDS Integers, Sequences, FiniteSets, TLC

VARIABLES
  facilities,          \* App.tsx:14  Facility[]
  selectedFiles,       \* App.tsx:13  File[]
  loading,             \* App.tsx:15
  currentLocation,     \* App.tsx:17
  optimizedIds,        \* App.tsx:18  string[] (or undefined, see handleOptimize)
  reasoning,           \* App.tsx:19
  error,               \* App.tsx:20  string | null
  showUnvisitedOnly,   \* App.tsx:21
  selectedIds,         \* App.tsx:22  Set<string>
  currentMonth,        \* App.tsx:25  read from the clock at every render
  extractionInFlight,  \* pending parseContentToFacilities promises
  optimizationInFlight,\* pending optimizeRoute promises
  ticks,               \* month rollovers so far (bounds the clock)
  dateStr,             \* classifier harness: the input string
  month,               \* classifier harness: the caller's current month
  classified,          \* classifier harness: the result, once computed
  url,                 \* route harness: the result of getMapsUrl, once computed
  stats                \* partition harness: the result of sortedStats, once computed

vars == <<facilities, selectedFiles, loading, currentLocation, optimizedIds,
          reasoning, error, showUnvisitedOnly, selectedIds, currentMonth,
          extractionInFlight, optimizationInFlight, ticks,
          dateStr, month, classified, url, stats>>

appVars == <<facilities, selectedFiles, loading, currentLocation, optimizedIds,
             reasoning, error, showUnvisitedOnly, selectedIds, currentMonth,
             extractionInFlight, optimizationInFlight, ticks>>

harnessVars == <<dateStr, month, classified, url, stats>>

-----------------------------------------------------------------------------
(* JavaScript values *)

\* JavaScript's null (error: string | null; a null month).
Null == "null"

\* JavaScript's undefined (an absent argument, a missing property).
Undefined == "undefined"

\* An absent string argument (dateStr: string | undefined), as the one-token
\* sequence no string of characters equals.
Absent == <<Undefined>>

\* A null month (getMonthFromDateString: number | null); parseInt of digits
\* is never negative.
NullMonth == -1

\* All strings over `alphabet` of length at most n.
RECURSIVE StringsUpTo(_, _)
StringsUpTo(alphabet, n) ==
  IF n = 0 THEN {<<>>}
  ELSE LET shorter == StringsUpTo(alphabet, n - 1)
       IN  shorter \cup {Append(s, c) : s \in shorter, c \in alphabet}

-----------------------------------------------------------------------------
(* Bounds *)

\* Facilities beyond the selection limit in the largest extracted collection.
ExtraFacilities == 1

\* Files the user may queue for one scan.
MaxFiles == 1

\* Month rollovers observed during one session.
MaxTicks == 1

\* Length of the free-form date strings enumerated for the classifier.
MaxDateLen == 3

\* Length of the route plans enumerated for the driving URL.
MaxPlanLen == 3

-----------------------------------------------------------------------------
(* Program constants *)

\* App.tsx:63  if (newSet.size >= 9) return alert(...)
SelectionLimit == 9

\* App.tsx:69  sortedStats.unvisited.slice(0, 9)
TopCount == 9

-----------------------------------------------------------------------------
(* Date-month classifier: App.tsx:28-37 *)

Digits == {"0", "1", "2", "3", "4", "5", "6", "7", "8", "9"}

\* The character class [gatsu / - .] of the regular expression on line 31.
Separators == {"gatsu", "/", "-", "."}

DigitValue(c) ==
  CASE c = "0" -> 0 [] c = "1" -> 1 [] c = "2" -> 2 [] c = "3" -> 3
    [] c = "4" -> 4 [] c = "5" -> 5 [] c = "6" -> 6 [] c = "7" -> 7
    [] c = "8" -> 8 [] c = "9" -> 9

\* parseInt(s, 10) of a string of one or two decimal digits.
parseInt(s) ==
  IF Len(s) = 1 THEN DigitValue(s[1])
  ELSE 10 * DigitValue(s[1]) + DigitValue(s[2])

SentinelNone == <<"na", "shi">>
SentinelUnvisited == <<"mi", "hou", "mon">>

\* MatchAt with the quantifier lost: /(\d)[gatsu\/\-\.]/.
MatchAtSingleDigit(s, i) ==
  IF i + 1 <= Len(s) /\ s[i] \in Digits /\ s[i + 1] \in Separators
    THEN 1
  ELSE 0

\* The number of digits (\d{1,2}, greedy) of a match of
\* /(\d{1,2})[gatsu\/\-\.]/ that starts at position i; 0 when none does.
MatchAt(s, i) ==
  IF i + 2 <= Len(s) /\ s[i] \in Digits /\ s[i + 1] \in Digits
       /\ s[i + 2] \in Separators
    THEN 2
  ELSE IF i + 1 <= Len(s) /\ s[i] \in Digits /\ s[i + 1] \in Separators
    THEN 1
  ELSE 0

\* String.prototype.match without the g flag: the leftmost match.
FirstMatch(s) ==
  LET starts == {i \in 1..Len(s) : MatchAt(s, i) > 0}
  IN  IF starts = {} THEN 0
      ELSE CHOOSE i \in starts : \A j \in starts : i <= j

\* /^\d{1,2}$/
PureNum(s) ==
  /\ Len(s) \in {1, 2}
  /\ \A i \in 1..Len(s) : s[i] \in Digits

getMonthFromDateString(s) ==
  IF s = Absent \/ s = <<>> \/ s = SentinelNone \/ s = SentinelUnvisited
    THEN NullMonth
  ELSE LET i == FirstMatch(s)
       IN  IF i > 0 THEN parseInt(SubSeq(s, i, i + MatchAt(s, i) - 1))
           ELSE IF PureNum(s) THEN parseInt(s)
           ELSE NullMonth

-----------------------------------------------------------------------------
(* Facility partitioner: App.tsx:40-54 *)

\* visitMonth === currentMonth (line 46; also isV on line 236).
IsVisited(f, m) == getMonthFromDateString(f.lastVisitDate) = m

\* The facilities pushed to `visited` by the forEach of lines 44-51, in order.
Visited(facs, m) == SelectSeq(facs, LAMBDA f : IsVisited(f, m))

\* The facilities pushed to `unvisited` by the forEach of lines 44-51, in order.
Unvisited(facs, m) == SelectSeq(facs, LAMBDA f : ~IsVisited(f, m))

\* The forEach of lines 44-51 from facility number i on: each facility is
\* pushed to the end of one of the two arrays.
RECURSIVE forEachFacility(_, _, _, _)
forEachFacility(facs, m, i, acc) ==
  IF i > Len(facs) THEN acc
  ELSE LET f == facs[i]
           visitMonth == getMonthFromDateString(f.lastVisitDate)
       IN  forEachFacility(facs, m, i + 1,
             IF visitMonth = m
               THEN [acc EXCEPT !.visited = Append(@, f)]
               ELSE [acc EXCEPT !.unvisited = Append(@, f)])

\* sortedStats with the facilities of unknown month pushed to neither array.
sortedStatsKnownMonthsOnly(facs, m) ==
  [visited |-> Visited(facs, m),
   unvisited |-> SelectSeq(facs, LAMBDA f :
                   getMonthFromDateString(f.lastVisitDate) \notin {m, NullMonth}),
   total |-> Len(facs)]

\* Lines 40-54: { visited, unvisited, total: facilities.length }.
sortedStats(facs, m) ==
  LET arrays == forEachFacility(facs, m, 1, [visited |-> <<>>, unvisited |-> <<>>])
  IN  [visited |-> arrays.visited, unvisited |-> arrays.unvisited,
       total |-> Len(facs)]

-----------------------------------------------------------------------------
(* Selection manager: App.tsx:58-70 *)

\* toggleSelection with the limit test off by one (size > 9).
toggleSelectionOffByOne(sel, id) ==
  IF id \in sel THEN sel \ {id}
  ELSE IF Cardinality(sel) > SelectionLimit THEN sel
  ELSE sel \cup {id}

\* The value toggleSelection(id) leaves in selectedIds.
toggleSelection(sel, id) ==
  IF id \in sel THEN sel \ {id}
  ELSE IF Cardinality(sel) >= SelectionLimit THEN sel
  ELSE sel \cup {id}

\* Array.prototype.slice(0, n)
Take(seq, n) == SubSeq(seq, 1, IF Len(seq) < n THEN Len(seq) ELSE n)

\* The value selectTop9 leaves in selectedIds.
selectTop9(facs, m) ==
  LET top == Take(Unvisited(facs, m), TopCount)
  IN  {top[i].id : i \in 1..Len(top)}

-----------------------------------------------------------------------------
(* The two services: src/unnamed/part_000 *)

\* A response of ai.models.generateContent: the call throws, or yields an
\* empty text, a text JSON.parse rejects, or a text JSON.parse accepts (value).
Response(kind, value) == [kind |-> kind, value |-> value]

FailureKinds == {"throws", "empty", "malformed"}

\* parseContentToFacilities, lines 44-73: every failure is caught and
\* answered with the empty list.
parseContentToFacilities(resp) ==
  IF resp.kind = "throws" THEN <<>>
  ELSE IF resp.kind = "empty" THEN <<>>
  ELSE IF resp.kind = "malformed" THEN <<>>
  ELSE resp.value

\* optimizeRoute, lines 86-137: an empty text throws, every exception is
\* logged and thrown again, and the parsed value is returned unvalidated.
optimizeRoute(resp) ==
  IF resp.kind = "json" THEN [threw |-> FALSE, value |-> resp.value]
  ELSE [threw |-> TRUE, value |-> resp.value]

\* A parsed JSON value of the optimization response: null, or an object
\* whose orderedIds / reasoning properties may be missing (undefined).
JsonNull == [null |-> TRUE, orderedIds |-> Absent, reasoning |-> Undefined]
JsonObject(ids, why) == [null |-> FALSE, orderedIds |-> ids, reasoning |-> why]

-----------------------------------------------------------------------------
(* What the services may answer *)

Facility(id, address, lastVisitDate) ==
  [id |-> id, address |-> address, lastVisitDate |-> lastVisitDate]

DigitToken(n) ==
  CASE n = 0 -> "0" [] n = 1 -> "1" [] n = 2 -> "2" [] n = 3 -> "3"
    [] n = 4 -> "4" [] n = 5 -> "5" [] n = 6 -> "6" [] n = 7 -> "7"
    [] n = 8 -> "8" [] n = 9 -> "9"

\* The decimal digits of n < 100.
DigitsOf(n) ==
  IF n < 10 THEN <<DigitToken(n)>>
  ELSE <<DigitToken(n \div 10), DigitToken(n % 10)>>

\* A record sheet with one facility visited in March, one whose last visit
\* reads as April, and one never visited.
SmallCollection ==
  << Facility("f1", <<"A", "|", "1">>, <<"3", "gatsu", "1", "2", "nichi">>),
     Facility("f2", <<"A", " ", "2">>, <<"4", "/", "1">>),
     Facility("f3", <<"A", "&", "3">>, SentinelNone) >>

\* A record sheet with more unvisited facilities than the selection limit.
BigCollection ==
  [n \in 1..(SelectionLimit + ExtraFacilities) |->
     Facility("g" \o ToString(n), <<"B">> \o DigitsOf(n), <<"1", "gatsu">>)]

ExtractionResponses ==
  {Response(k, <<>>) : k \in FailureKinds}
    \cup {Response("json", c) : c \in {<<>>, SmallCollection}}

\* Plans the optimization service may answer: it is not held to the targets.
PlanChoices ==
  { <<>>, <<"f3", "f2">>, <<"f2", "zz", "f1">> }

OptimizationResponses ==
  {Response(k, JsonNull) : k \in FailureKinds}
    \cup {Response("json", JsonNull)}
    \cup {Response("json", JsonObject(p, "why")) : p \in PlanChoices}
    \cup {Response("json", JsonObject(<<"f3", "f2">>, Undefined)),
          Response("json", JsonObject(Absent, "why"))}

\* The response is not an object with an orderedIds array and a reasoning
\* string, or there is no response at all.
IsOptimizationFailure(resp) ==
  \/ resp.kind \in FailureKinds
  \/ resp.value.null
  \/ resp.value.orderedIds = Absent
  \/ resp.value.reasoning = Undefined

-----------------------------------------------------------------------------
(* The state after construction: App.tsx:12-25 *)

\* The default origin placeholder of line 17 (three glyphs), as one token.
DefaultLocation == <<"genzaichi">>

\* The months new Date().getMonth() + 1 can yield.
Months == 1..12

InitApp ==
  /\ facilities = <<>>
  /\ selectedFiles = <<>>
  /\ loading = FALSE
  /\ currentLocation = DefaultLocation
  /\ optimizedIds = <<>>
  /\ reasoning = ""
  /\ error = Null
  /\ showUnvisitedOnly = TRUE
  /\ selectedIds = {}
  /\ extractionInFlight = 0
  /\ optimizationInFlight = 0
  /\ ticks = 0

NotClassified == [done |-> FALSE, month |-> NullMonth, visited |-> FALSE]

NotPartitioned ==
  [done |-> FALSE, visited |-> <<>>, unvisited |-> <<>>, total |-> 0]

InitHarness ==
  /\ dateStr = <<>>
  /\ month = 1
  /\ classified = NotClassified
  /\ url = Absent
  /\ stats = NotPartitioned

-----------------------------------------------------------------------------
(* Rendering: App.tsx:126-338 *)

\* The generic messages of lines 100 and 112.
ScanError == "scan_failed"
OptimizeError == "route_failed"

\* The render reads optimizedIds.length (lines 261, 315) only when facilities
\* are loaded; on an undefined optimizedIds that read throws and the tree
\* is unmounted, after which no control exists.
RenderOK == ~(Len(facilities) > 0 /\ optimizedIds = Absent)

\* The scan section (lines 152-180) is rendered instead of the list.
ScanSectionShown == RenderOK /\ Len(facilities) = 0

\* The list section (lines 181-310) is rendered.
ListSectionShown == RenderOK /\ Len(facilities) > 0

\* Line 56.
displayedFacilities ==
  IF showUnvisitedOnly THEN Unvisited(facilities, currentMonth) ELSE facilities

\* Line 177: the scan button is rendered and not disabled.
ScanEnabled == ScanSectionShown /\ ~(loading \/ Len(selectedFiles) = 0)

\* Line 315: the floating action bar is rendered.
ActionBarShown ==
  RenderOK /\ Len(facilities) > 0 /\ Len(optimizedIds) = 0

\* OptimizeEnabled with `loading ||` dropped from the disabled attributes.
OptimizeEnabledIgnoringLoading(mode) ==
  /\ ActionBarShown
  /\ IF mode = "auto"
       THEN Len(Unvisited(facilities, currentMonth)) # 0
       ELSE Cardinality(selectedIds) # 0

\* Lines 322 and 325: the optimize button of `mode` is rendered and not disabled.
OptimizeEnabled(mode) ==
  /\ ActionBarShown
  /\ IF mode = "auto"
       THEN ~(loading \/ Len(Unvisited(facilities, currentMonth)) = 0)
       ELSE ~(loading \/ Cardinality(selectedIds) = 0)

\* Line 261: the route overlay is rendered.
RouteOverlayShown == ListSectionShown /\ Len(optimizedIds) > 0

-----------------------------------------------------------------------------
(* User actions and call completions *)

\* Line 162: the file input appends the chosen file.
AddFile ==
  /\ ScanSectionShown
  /\ Len(selectedFiles) < MaxFiles
  /\ selectedFiles' = Append(selectedFiles, "file")
  /\ UNCHANGED <<facilities, loading, currentLocation, optimizedIds, reasoning,
                 error, showUnvisitedOnly, selectedIds, currentMonth,
                 extractionInFlight, optimizationInFlight, ticks, harnessVars>>

\* Line 172: the X of a file chip removes that file.
RemoveFile ==
  /\ ScanSectionShown
  /\ \E i \in 1..Len(selectedFiles) :
       selectedFiles' = SubSeq(selectedFiles, 1, i - 1)
                          \o SubSeq(selectedFiles, i + 1, Len(selectedFiles))
  /\ UNCHANGED <<facilities, loading, currentLocation, optimizedIds, reasoning,
                 error, showUnvisitedOnly, selectedIds, currentMonth,
                 extractionInFlight, optimizationInFlight, ticks, harnessVars>>

\* handleParse up to its await (lines 82-97).  The files are never empty
\* here (line 177), so line 96 does not throw.
ScanStart ==
  /\ ScanEnabled
  /\ loading' = TRUE
  /\ error' = Null
  /\ extractionInFlight' = extractionInFlight + 1
  /\ UNCHANGED <<facilities, selectedFiles, currentLocation, optimizedIds,
                 reasoning, showUnvisitedOnly, selectedIds, currentMonth,
                 optimizationInFlight, ticks, harnessVars>>

\* handleParse after its await (lines 97-100): parseContentToFacilities never
\* rejects, so the catch of line 100 is not entered.
ScanComplete(resp) ==
  /\ extractionInFlight > 0
  /\ facilities' = parseContentToFacilities(resp)
  /\ selectedIds' = {}
  /\ loading' = FALSE
  /\ extractionInFlight' = extractionInFlight - 1
  /\ UNCHANGED <<selectedFiles, currentLocation, optimizedIds, reasoning, error,
                 showUnvisitedOnly, currentMonth, optimizationInFlight, ticks,
                 harnessVars>>

\* Lines 189-190.
SetShowUnvisitedOnly ==
  /\ ListSectionShown
  /\ \E b \in BOOLEAN : showUnvisitedOnly' = b
  /\ UNCHANGED <<facilities, selectedFiles, loading, currentLocation,
                 optimizedIds, reasoning, error, selectedIds, currentMonth,
                 extractionInFlight, optimizationInFlight, ticks, harnessVars>>

\* Line 239, onClick={() => !isV && toggleSelection(f.id)}: the selection a
\* click on the card of facility f leaves.
CardClickResult(f) ==
  LET isV == IsVisited(f, currentMonth)
  IN  IF ~isV THEN toggleSelection(selectedIds, f.id) ELSE selectedIds

\* A click on the card of the displayed facility f.
CardClick(f) ==
  /\ ListSectionShown
  /\ selectedIds' = CardClickResult(f)
  /\ UNCHANGED <<facilities, selectedFiles, loading, currentLocation,
                 optimizedIds, reasoning, error, showUnvisitedOnly,
                 currentMonth, extractionInFlight, optimizationInFlight, ticks,
                 harnessVars>>

\* Lines 235-239: one card per displayed facility.
ClickSomeCard ==
  LET shown == displayedFacilities
  IN  \E i \in 1..Len(shown) : CardClick(shown[i])

\* Line 223.
SelectTop9 ==
  /\ ListSectionShown
  /\ showUnvisitedOnly
  /\ selectedIds' = selectTop9(facilities, currentMonth)
  /\ UNCHANGED <<facilities, selectedFiles, loading, currentLocation,
                 optimizedIds, reasoning, error, showUnvisitedOnly,
                 currentMonth, extractionInFlight, optimizationInFlight, ticks,
                 harnessVars>>

\* Line 224.
ClearSelection ==
  /\ ListSectionShown
  /\ showUnvisitedOnly
  /\ selectedIds' = {}
  /\ UNCHANGED <<facilities, selectedFiles, loading, currentLocation,
                 optimizedIds, reasoning, error, showUnvisitedOnly,
                 currentMonth, extractionInFlight, optimizationInFlight, ticks,
                 harnessVars>>

\* Origins the user may type (line 210) or getPos may report (line 76).
Locations == {DefaultLocation, <<"3", "5", ".", "0", ",", "1", "3", "9", ".", "0">>}

SetLocation ==
  /\ ListSectionShown
  /\ \E l \in Locations : currentLocation' = l
  /\ UNCHANGED <<facilities, selectedFiles, loading, optimizedIds, reasoning,
                 error, showUnvisitedOnly, selectedIds, currentMonth,
                 extractionInFlight, optimizationInFlight, ticks, harnessVars>>

\* The targets of line 104.
OptimizeTargets(mode) ==
  LET unvisited == Unvisited(facilities, currentMonth)
  IN  IF mode = "manual"
        THEN SelectSeq(unvisited, LAMBDA f : f.id \in selectedIds)
        ELSE unvisited

\* handleOptimize up to its await (lines 104-109); error is not cleared.
OptimizeStart(mode) ==
  /\ OptimizeEnabled(mode)
  /\ IF Len(OptimizeTargets(mode)) = 0
       THEN UNCHANGED <<loading, optimizationInFlight>>
       ELSE /\ loading' = TRUE
            /\ optimizationInFlight' = optimizationInFlight + 1
  /\ UNCHANGED <<facilities, selectedFiles, currentLocation, optimizedIds,
                 reasoning, error, showUnvisitedOnly, selectedIds, currentMonth,
                 extractionInFlight, ticks, harnessVars>>

ClickOptimize == \E mode \in {"auto", "manual"} : OptimizeStart(mode)

\* handleOptimize after its await (lines 109-112): a rejection, or reading a
\* property of null, enters the catch; otherwise both properties are stored
\* as they are.
OptimizeComplete(resp) ==
  /\ optimizationInFlight > 0
  /\ LET res == optimizeRoute(resp)
     IN  IF res.threw \/ res.value.null
           THEN /\ error' = OptimizeError
                /\ UNCHANGED <<optimizedIds, reasoning>>
           ELSE /\ optimizedIds' = res.value.orderedIds
                /\ reasoning' = res.value.reasoning
                /\ UNCHANGED error
  /\ loading' = FALSE
  /\ optimizationInFlight' = optimizationInFlight - 1
  /\ UNCHANGED <<facilities, selectedFiles, currentLocation, showUnvisitedOnly,
                 selectedIds, currentMonth, extractionInFlight, ticks,
                 harnessVars>>

\* Line 269: the X of the route overlay.
DismissRoute ==
  /\ RouteOverlayShown
  /\ optimizedIds' = <<>>
  /\ UNCHANGED <<facilities, selectedFiles, loading, currentLocation, reasoning,
                 error, showUnvisitedOnly, selectedIds, currentMonth,
                 extractionInFlight, optimizationInFlight, ticks, harnessVars>>

\* Line 308: the reset button.
Reset ==
  /\ ListSectionShown
  /\ facilities' = <<>>
  /\ optimizedIds' = <<>>
  /\ selectedIds' = {}
  /\ selectedFiles' = <<>>
  /\ error' = Null
  /\ UNCHANGED <<loading, currentLocation, reasoning, showUnvisitedOnly,
                 currentMonth, extractionInFlight, optimizationInFlight, ticks,
                 harnessVars>>

\* Line 334: the X of the error toast.
DismissError ==
  /\ RenderOK
  /\ error # Null
  /\ error' = Null
  /\ UNCHANGED <<facilities, selectedFiles, loading, currentLocation,
                 optimizedIds, reasoning, showUnvisitedOnly, selectedIds,
                 currentMonth, extractionInFlight, optimizationInFlight, ticks,
                 harnessVars>>

\* Line 25: currentMonth is read from the clock at every render.  The clock
\* passes into the next month and the application renders again (any state
\* update that is undone, such as typing and deleting a character of the
\* origin, renders without another change of state).
MonthRollover ==
  /\ ticks < MaxTicks
  /\ ticks' = ticks + 1
  /\ currentMonth' = IF currentMonth = 12 THEN 1 ELSE currentMonth + 1
  /\ UNCHANGED <<facilities, selectedFiles, loading, currentLocation,
                 optimizedIds, reasoning, error, showUnvisitedOnly, selectedIds,
                 extractionInFlight, optimizationInFlight, harnessVars>>

\* A pending extraction call settles with any response.
ScanSettles == \E resp \in ExtractionResponses : ScanComplete(resp)

\* A pending optimization call settles with any response.
OptimizeSettles == \E resp \in OptimizationResponses : OptimizeComplete(resp)

Init ==
  /\ InitApp
  /\ currentMonth = 3
  /\ InitHarness

Next ==
  \/ AddFile
  \/ RemoveFile
  \/ ScanStart
  \/ ScanSettles
  \/ SetShowUnvisitedOnly
  \/ ClickSomeCard
  \/ SelectTop9
  \/ ClearSelection
  \/ SetLocation
  \/ ClickOptimize
  \/ OptimizeSettles
  \/ DismissRoute
  \/ Reset
  \/ DismissError
  \/ MonthRollover

Spec == Init /\ [][Next]_vars

-----------------------------------------------------------------------------
(* The same application fed a record sheet with more unvisited facilities    *)
(* than the selection limit.                                                 *)

BigSheetExtractionResponses ==
  {Response("throws", <<>>), Response("json", BigCollection)}

BigSheetOptimizationResponses ==
  {Response("json", JsonObject(<<"g2", "g1">>, "why"))}

BigSheetScanSettles ==
  \E resp \in BigSheetExtractionResponses : ScanComplete(resp)

BigSheetOptimizeSettles ==
  \E resp \in BigSheetOptimizationResponses : OptimizeComplete(resp)

\* Toggle, select-top-9, clear, scan, optimize, dismiss and reset.
NextSelection ==
  \/ AddFile
  \/ ScanStart
  \/ BigSheetScanSettles
  \/ ClickSomeCard
  \/ SelectTop9
  \/ ClearSelection
  \/ ClickOptimize
  \/ BigSheetOptimizeSettles
  \/ DismissRoute
  \/ Reset

SpecSelection == Init /\ [][NextSelection]_vars

-----------------------------------------------------------------------------
(* Claims about the workflow *)

ExtractionFailures == {Response(k, <<>>) : k \in FailureKinds}

\* C1: when the extraction call of a scan started from Idle fails, then after
\* the call completes the collection is still empty, an error message is
\* displayed, and no call is in flight with the loading flag down.
C1_ExtractionFailureShowsError ==
  [][\A resp \in ExtractionFailures :
       (Len(facilities) = 0 /\ ScanComplete(resp))
         => /\ facilities' = <<>>
            /\ error' # Null
            /\ ~loading'
            /\ extractionInFlight' = 0
            /\ optimizationInFlight' = 0]_vars

\* C2: the selection set never holds more than 9 identifiers, and a toggle
\* of a not-yet-selected id while the set has 9 members leaves it unchanged.
C2_AtMostNineSelected ==
  /\ Cardinality(selectedIds) <= 9
  /\ (ListSectionShown /\ Cardinality(selectedIds) = 9) =>
       \A i \in 1..Len(displayedFacilities) :
         displayedFacilities[i].id \notin selectedIds
           => CardClickResult(displayedFacilities[i]) = selectedIds

\* C2 witness: nine facilities are selected and a tenth, unvisited and not
\* selected, is displayed for a toggle.
C2_Witness ==
  /\ ListSectionShown
  /\ Cardinality(selectedIds) = 9
  /\ \E i \in 1..Len(displayedFacilities) :
       /\ displayedFacilities[i].id \notin selectedIds
       /\ ~IsVisited(displayedFacilities[i], currentMonth)

\* Every selected id is the id of an unvisited facility of the collection.
SelectionIsUnvisited ==
  \A id \in selectedIds :
    \E i \in 1..Len(facilities) :
      facilities[i].id = id /\ ~IsVisited(facilities[i], currentMonth)

\* A click on a displayed card of a visited facility leaves the selection.
VisitedCardClickIsNoOp ==
  ListSectionShown =>
    \A i \in 1..Len(displayedFacilities) :
      IsVisited(displayedFacilities[i], currentMonth)
        => CardClickResult(displayedFacilities[i]) = selectedIds

\* C3: in every reachable state every member of the selection set is the id
\* of a facility of the loaded collection that is unvisited for the current
\* month, and a toggle request on a visited facility never changes the set.
C3_SelectionOnlyUnvisited == SelectionIsUnvisited /\ VisitedCardClickIsNoOp

\* C4: at most one extraction call and at most one optimization call is in
\* flight, never both together, and the loading flag is up while one is.
C4_OneCallInFlight ==
  /\ extractionInFlight <= 1
  /\ optimizationInFlight <= 1
  /\ extractionInFlight + optimizationInFlight <= 1
  /\ (extractionInFlight + optimizationInFlight = 1) => loading

\* C4 witness: an optimization call is pending after a reset, the scan
\* section is shown with a file queued, and the scan button is disabled.
C4_Witness ==
  /\ optimizationInFlight = 1
  /\ loading
  /\ ScanSectionShown
  /\ Len(selectedFiles) > 0
  /\ ~ScanEnabled

\* C5: the reset action yields an empty facility collection, an empty
\* selection set, an empty route plan (no ordered ids, no rationale) and no
\* error message.
C5_ResetClearsAll ==
  [][Reset =>
       /\ facilities' = <<>>
       /\ selectedIds' = {}
       /\ optimizedIds' = <<>>
       /\ reasoning' = ""
       /\ error' = Null]_vars

\* C9: when an optimization call fails, then after the call completes the
\* generic error message is displayed, no call is in flight, and the
\* collection, the selection and the route plan are as they were.
C9_OptimizationFailureKeepsPlan ==
  [][\A resp \in OptimizationResponses :
       (IsOptimizationFailure(resp) /\ OptimizeComplete(resp))
         => /\ error' = OptimizeError
            /\ ~loading'
            /\ extractionInFlight' = 0
            /\ optimizationInFlight' = 0
            /\ UNCHANGED <<facilities, selectedIds, optimizedIds, reasoning>>]_vars

-----------------------------------------------------------------------------
(* Route assembly: App.tsx:117-124 *)

\* The characters encodeURIComponent leaves as they are (RFC 3986 unreserved
\* and ! ~ * ' ( )), as far as the model's strings use them.
Unescaped ==
  Digits \cup {"A", "B", "a", "b", ".", "-", "_"}

\* encodeURIComponent of one character: the %XX of its UTF-8 bytes.
EncodeChar(c) ==
  CASE c \in Unescaped -> <<c>>
    [] c = " " -> <<"%", "2", "0">>
    [] c = "%" -> <<"%", "2", "5">>
    [] c = "&" -> <<"%", "2", "6">>
    [] c = "," -> <<"%", "2", "C">>
    [] c = "/" -> <<"%", "2", "F">>
    [] c = "=" -> <<"%", "3", "D">>
    [] c = "?" -> <<"%", "3", "F">>
    [] c = "|" -> <<"%", "7", "C">>
    [] c = "genzaichi" ->
         <<"%", "E", "7", "%", "8", "F", "%", "B", "E",
           "%", "E", "5", "%", "9", "C", "%", "A", "8",
           "%", "E", "5", "%", "9", "C", "%", "B", "0">>

\* encodeURIComponent with no escaping at all.
encodeNothing(str) == str

RECURSIVE encodeURIComponent(_)
encodeURIComponent(str) ==
  IF str = <<>> THEN <<>>
  ELSE EncodeChar(Head(str)) \o encodeURIComponent(Tail(str))

\* facilities.find(f => f.id === id): the first match, or no element.
Find(facs, id) ==
  LET hits == {i \in 1..Len(facs) : facs[i].id = id}
  IN  IF hits = {} THEN <<>>
      ELSE <<facs[CHOOSE i \in hits : \A k \in hits : i <= k]>>

\* Line 118: optimizedIds.map(find).filter(Boolean)
RECURSIVE Ordered(_, _)
Ordered(ids, facs) ==
  IF ids = <<>> THEN <<>>
  ELSE Find(facs, Head(ids)) \o Ordered(Tail(ids), facs)

\* Array.prototype.join('|') of encoded addresses.
RECURSIVE JoinEncoded(_)
JoinEncoded(stops) ==
  IF stops = <<>> THEN <<>>
  ELSE IF Len(stops) = 1 THEN encodeURIComponent(stops[1].address)
  ELSE encodeURIComponent(stops[1].address) \o <<"|">> \o JoinEncoded(Tail(stops))

\* The template literal of line 123; its fixed fragments are single tokens.
getMapsUrl(ids, facs, location) ==
  LET ordered == Ordered(ids, facs)
  IN  IF Len(ordered) = 0 THEN <<>>
      ELSE LET origin == encodeURIComponent(location)
               dest == encodeURIComponent(ordered[Len(ordered)].address)
               wps == JoinEncoded(SubSeq(ordered, 1, Len(ordered) - 1))
           IN  <<"https://www.google.com/maps/dir/", "?", "api", "=", "1",
                 "&", "origin", "=">> \o origin
                 \o <<"&", "destination", "=">> \o dest
                 \o <<"&", "waypoints", "=">> \o wps
                 \o <<"&", "travelmode", "=", "driving">>

-----------------------------------------------------------------------------
(* Route harness: getMapsUrl applied to one plan, collection and origin.     *)

PlanIds == {"f1", "f2", "f3", "zz"}

\* The small sheet without its first facility: f1 no longer resolves.
ReducedCollection == Tail(SmallCollection)

InitRoute ==
  /\ facilities \in {<<>>, SmallCollection, ReducedCollection}
  /\ optimizedIds \in StringsUpTo(PlanIds, MaxPlanLen)
  /\ currentLocation \in Locations
  /\ selectedFiles = <<>>
  /\ loading = FALSE
  /\ reasoning = ""
  /\ error = Null
  /\ showUnvisitedOnly = TRUE
  /\ selectedIds = {}
  /\ extractionInFlight = 0
  /\ optimizationInFlight = 0
  /\ ticks = 0
  /\ currentMonth = 3
  /\ dateStr = <<>>
  /\ month = 1
  /\ classified = NotClassified
  /\ url = Absent
  /\ stats = NotPartitioned

\* Line 299: href={getMapsUrl()}.
BuildUrl ==
  /\ url = Absent
  /\ url' = getMapsUrl(optimizedIds, facilities, currentLocation)
  /\ UNCHANGED <<appVars, dateStr, month, classified, stats>>

NextRoute == BuildUrl

SpecRoute == InitRoute /\ [][NextRoute]_vars

-----------------------------------------------------------------------------
(* Claims about the driving URL *)

\* The pieces of s between the occurrences of sep.
RECURSIVE SplitOn(_, _)
SplitOn(s, sep) ==
  LET cuts == {i \in 1..Len(s) : s[i] = sep}
  IN  IF cuts = {} THEN <<s>>
      ELSE LET c == CHOOSE i \in cuts : \A k \in cuts : i <= k
           IN  <<SubSeq(s, 1, c - 1)>> \o SplitOn(SubSeq(s, c + 1, Len(s)), sep)

\* The value of query parameter `key` of URL u, as a URL parser reads it:
\* the query follows the first "?", parameters are separated by "&".
QueryParam(u, key) ==
  LET q == CHOOSE i \in 1..Len(u) : u[i] = "?" /\ \A k \in 1..(i - 1) : u[k] # "?"
      params == SplitOn(SubSeq(u, q + 1, Len(u)), "&")
      i == CHOOSE n \in 1..Len(params) :
             /\ Len(params[n]) >= 2 /\ params[n][1] = key /\ params[n][2] = "="
             /\ \A k \in 1..(n - 1) : ~(Len(params[k]) >= 2 /\ params[k][1] = key)
  IN  SubSeq(params[i], 3, Len(params[i]))

\* The characters that have an escape.
Escaped == {" ", "%", "&", ",", "/", "=", "?", "|", "genzaichi"}

IsPrefix(p, s) == Len(p) <= Len(s) /\ SubSeq(s, 1, Len(p)) = p

\* decodeURIComponent.
RECURSIVE Decode(_)
Decode(s) ==
  IF s = <<>> THEN <<>>
  ELSE IF Head(s) # "%" THEN <<Head(s)>> \o Decode(Tail(s))
  ELSE LET c == CHOOSE x \in Escaped : IsPrefix(EncodeChar(x), s)
       IN  <<c>> \o Decode(SubSeq(s, Len(EncodeChar(c)) + 1, Len(s)))

\* The stops of the plan that resolve to a facility, in plan order.
RECURSIVE ResolvedStops(_, _)
ResolvedStops(plan, facs) ==
  IF plan = <<>> THEN <<>>
  ELSE IF \E i \in 1..Len(facs) : facs[i].id = Head(plan)
    THEN LET i == CHOOSE n \in 1..Len(facs) :
                    /\ facs[n].id = Head(plan)
                    /\ \A k \in 1..(n - 1) : facs[k].id # Head(plan)
         IN  <<facs[i]>> \o ResolvedStops(Tail(plan), facs)
  ELSE ResolvedStops(Tail(plan), facs)

\* The decoded waypoints of URL u: none when the parameter is empty.
Waypoints(u) ==
  LET w == QueryParam(u, "waypoints")
  IN  IF w = <<>> THEN <<>>
      ELSE LET pieces == SplitOn(w, "|")
           IN  [i \in 1..Len(pieces) |-> Decode(pieces[i])]

\* The strings of a sequence joined by '|'.
RECURSIVE JoinWithBar(_)
JoinWithBar(strs) ==
  IF strs = <<>> THEN <<>>
  ELSE IF Len(strs) = 1 THEN strs[1]
  ELSE strs[1] \o <<"|">> \o JoinWithBar(Tail(strs))

\* C10: the driving URL is the empty string when no id of the plan resolves;
\* otherwise its destination is the address of the last resolved stop, its
\* waypoints are the addresses of the earlier resolved stops in plan order,
\* separated by '|', and its origin is the current-location string.
C10_DrivingUrl ==
  url # Absent =>
    LET stops == ResolvedStops(optimizedIds, facilities)
    IN  IF stops = <<>> THEN url = <<>>
        ELSE /\ Decode(QueryParam(url, "destination")) = stops[Len(stops)].address
             /\ Waypoints(url) =
                  [i \in 1..(Len(stops) - 1) |-> stops[i].address]
             /\ Decode(QueryParam(url, "waypoints")) =
                  JoinWithBar([i \in 1..(Len(stops) - 1) |-> stops[i].address])
             /\ Decode(QueryParam(url, "origin")) = currentLocation
             /\ QueryParam(url, "travelmode") = <<"driving">>

\* C10 witness: the URL of plan [f3, f1, f2] over the small sheet has been
\* built with two waypoints.
C10_Witness ==
  /\ url # Absent
  /\ url # <<>>
  /\ optimizedIds = <<"f3", "f1", "f2">>
  /\ facilities = SmallCollection
  /\ Len(Waypoints(url)) = 2

-----------------------------------------------------------------------------
(* Classifier harness: getMonthFromDateString and the visited test applied   *)
(* to one date string under one current month.                               *)

DateAlphabet == {"0", "1", "2", "3", "gatsu", "/", "-", ".", "x"}

\* The date strings of the specification's examples.
ExampleDates ==
  { <<"3", "gatsu", "1", "2", "nichi">>,
    <<"0", "3", "/", "1", "5">>,
    <<"2", "0", "2", "4", "-", "0", "3">>,
    <<"1", "2">>,
    <<"2", "0", "1", "1", "-", "0", "5", "-", "2", "0">>,
    <<"2", "0", "2", "4", "nen", "3", "gatsu">>,
    SentinelNone, SentinelUnvisited, Absent }

DateInputs == StringsUpTo(DateAlphabet, MaxDateLen) \cup ExampleDates

InitMonth ==
  /\ InitApp
  /\ currentMonth = 1
  /\ dateStr \in DateInputs
  /\ month \in Months
  /\ classified = NotClassified
  /\ url = Absent
  /\ stats = NotPartitioned

Classify ==
  /\ ~classified.done
  /\ classified' =
       [done |-> TRUE,
        month |-> getMonthFromDateString(dateStr),
        visited |-> IsVisited([lastVisitDate |-> dateStr], month)]
  /\ UNCHANGED <<appVars, dateStr, month, url, stats>>

NextMonth == Classify

SpecMonth == InitMonth /\ [][NextMonth]_vars

-----------------------------------------------------------------------------
(* Claims about the classifier *)

\* The string begins with one or two digits immediately followed by a separator.
HasLeadingMonth(s) ==
  \/ Len(s) >= 2 /\ s[1] \in Digits /\ s[2] \in Separators
  \/ Len(s) >= 3 /\ s[1] \in Digits /\ s[2] \in Digits /\ s[3] \in Separators

\* The numeral such a string begins with.
LeadingNumeral(s) ==
  IF s[2] \in Separators THEN DigitValue(s[1])
  ELSE 10 * DigitValue(s[1]) + DigitValue(s[2])

NoVisitInputs == {Absent, <<>>, SentinelNone, SentinelUnvisited}

\* C6: a date string that begins with one or two digits immediately followed
\* by a separator classifies as exactly that leading numeral; an absent value,
\* the empty string and the two "no visit" sentinels classify as null.
C6_LeadingNumeral ==
  classified.done =>
    /\ HasLeadingMonth(dateStr) => classified.month = LeadingNumeral(dateStr)
    /\ dateStr \in NoVisitInputs => classified.month = NullMonth

\* C6 witness: a two-digit leading numeral has been classified.
C6_Witness ==
  /\ classified.done
  /\ HasLeadingMonth(dateStr)
  /\ dateStr[2] \in Digits
  /\ classified.month = 12

\* C7: a date string that neither begins with one or two digits followed by a
\* separator nor consists solely of one or two digits classifies as null and
\* is unvisited for every current month.
C7_OtherFormatsNull ==
  (classified.done /\ dateStr # Absent /\ ~HasLeadingMonth(dateStr)
     /\ ~PureNum(dateStr))
    => (classified.month = NullMonth /\ ~classified.visited)

Date_3gatsu12nichi == <<"3", "gatsu", "1", "2", "nichi">>
Date_03slash15 == <<"0", "3", "/", "1", "5">>
Date_2024dash03 == <<"2", "0", "2", "4", "-", "0", "3">>
Date_12 == <<"1", "2">>

\* C8: with current month 3, "3<gatsu>12<nichi>", "03/15" and "2024-03" all
\* classify as month 3 and are visited, "12" classifies as month 12 and is
\* unvisited, and the sentinel "none" classifies as null and is unvisited.
C8_ScenarioMonth3 ==
  (classified.done /\ month = 3) =>
    /\ dateStr \in {Date_3gatsu12nichi, Date_03slash15, Date_2024dash03}
         => (classified.month = 3 /\ classified.visited)
    /\ dateStr = Date_12 => (classified.month = 12 /\ ~classified.visited)
    /\ dateStr = SentinelNone
         => (classified.month = NullMonth /\ ~classified.visited)

\* ------------------------------------------------------------------
\* Route list of the overlay (App.tsx lines 274-295)
\* ------------------------------------------------------------------

\* optimizedIds.map((id, idx) => ...): a row for every id that finds a
\* facility, null (nothing rendered) for the others.  The badge of a row
\* shows idx + 1, idx being the 0-based index of the id in optimizedIds;
\* a TLA+ sequence is indexed from 1, so the badge is the index itself.
RouteList(ids, facs) ==
  LET cells == [idx \in 1..Len(ids) |->
                  [number |-> idx, found |-> Find(facs, ids[idx])]]
  IN  SelectSeq(cells, LAMBDA c : c.found # <<>>)

\* The facilities of the rendered rows, top to bottom.
RouteListStops(rows) == [i \in 1..Len(rows) |-> rows[i].found[1]]

\* C11: whenever the route overlay is rendered, the ids without a matching
\* facility are left out, the remaining stops appear in plan order, and the
\* rows are numbered 1..k without gaps for k remaining stops.
C11_RouteNumbering ==
  RouteOverlayShown =>
    LET rows == RouteList(optimizedIds, facilities)
    IN  /\ RouteListStops(rows) = ResolvedStops(optimizedIds, facilities)
        /\ \A i \in 1..Len(rows) : rows[i].number = i

-----------------------------------------------------------------------------
(* Partition harness: sortedStats applied to one collection and month.       *)

\* Longest collection of the partition harness.
MaxSheetLen == 3

\* Facilities whose dates classify to month 3, month 4, no month (sentinel)
\* and month 12 (bare numeral).
SheetFacilities ==
  { Facility("p1", <<"P", "1">>, <<"3", "gatsu", "1", "2", "nichi">>),
    Facility("p2", <<"P", "2">>, <<"4", "/", "1">>),
    Facility("p3", <<"P", "3">>, SentinelNone),
    Facility("p4", <<"P", "4">>, <<"1", "2">>) }

InitPartition ==
  /\ facilities \in StringsUpTo(SheetFacilities, MaxSheetLen)
  /\ currentMonth \in Months
  /\ selectedFiles = <<>>
  /\ loading = FALSE
  /\ currentLocation = DefaultLocation
  /\ optimizedIds = <<>>
  /\ reasoning = ""
  /\ error = Null
  /\ showUnvisitedOnly = TRUE
  /\ selectedIds = {}
  /\ extractionInFlight = 0
  /\ optimizationInFlight = 0
  /\ ticks = 0
  /\ InitHarness

\* Line 40: the memo is computed from facilities and currentMonth.
Partition ==
  /\ ~stats.done
  /\ stats' = LET res == sortedStats(facilities, currentMonth)
              IN  [done |-> TRUE, visited |-> res.visited,
                   unvisited |-> res.unvisited, total |-> res.total]
  /\ UNCHANGED <<appVars, dateStr, month, classified, url>>

NextPartition == Partition

SpecPartition == InitPartition /\ [][NextPartition]_vars

-----------------------------------------------------------------------------
(* Claim about the partitioner *)

\* The facilities of facs at the positions of keep, by increasing position.
RECURSIVE PickFrom(_, _, _)
PickFrom(facs, keep, i) ==
  IF i > Len(facs) THEN <<>>
  ELSE (IF i \in keep THEN <<facs[i]>> ELSE <<>>) \o PickFrom(facs, keep, i + 1)

\* The positions of the collection whose classified month is the current month.
PositionsOfMonth ==
  {i \in 1..Len(facilities) :
     getMonthFromDateString(facilities[i].lastVisitDate) = currentMonth}

\* C12: the partition of a collection for month M is total, disjoint and
\* order-preserving: visited holds exactly the facilities whose classified
\* month is M, unvisited all the others, both in collection order, and the
\* two counts add up to the total.
C12_PartitionTotalDisjointOrdered ==
  stats.done =>
    /\ stats.visited = PickFrom(facilities, PositionsOfMonth, 1)
    /\ stats.unvisited =
         PickFrom(facilities, (1..Len(facilities)) \ PositionsOfMonth, 1)
    /\ Len(stats.visited) + Len(stats.unvisited) = Len(facilities)
    /\ stats.total = Len(facilities)

\* A sheet partitioned for March: one facility visited in March between one
\* without a date and one visited in April.
C12_Witness ==
  /\ stats.done
  /\ currentMonth = 3
  /\ Len(facilities) = 3
  /\ [i \in 1..3 |-> facilities[i].id] = <<"p3", "p1", "p2">>
  /\ Len(stats.visited) = 1
  /\ Len(stats.unvisited) = 2

-----------------------------------------------------------------------------
(* Claims about the route plan and the error message of a session *)

\* optimizedIds holds a plan with at least one stop.
PlanNonEmpty == optimizedIds # Absent /\ Len(optimizedIds) > 0

\* C13: in every reachable state a non-empty route plan implies a non-empty
\* facility collection; in particular the completion of an optimization call
\* that was in flight when the session was reset installs no plan.
C13_PlanImpliesFacilities == PlanNonEmpty => Len(facilities) > 0

\* A step that starts an external call: one more promise is pending.
CallStarts ==
  \/ extractionInFlight' > extractionInFlight
  \/ optimizationInFlight' > optimizationInFlight

\* A step in which an external call completes with a usable answer.
CallSucceeds ==
  \/ \E resp \in ExtractionResponses :
       resp.kind = "json" /\ ScanComplete(resp)
  \/ \E resp \in OptimizationResponses :
       ~IsOptimizationFailure(resp) /\ OptimizeComplete(resp)

\* C14: starting an extraction or an optimization clears the error left by an
\* earlier failure, and no error message is displayed when a call has
\* completed successfully, so a plan from a successful optimization is never
\* shown together with an old failure message.
C14_NoStaleError ==
  [][(CallStarts \/ CallSucceeds) => error' = Null]_vars

====
